---- MODULE Spec2Model ----
(***************************************************************************)
(* A model of cuegui/Redirect.py: the controls of the redirect panel      *)
(* (RedirectControls), the search (RedirectWidget.update) and the         *)
(* redirect with its safety checks (RedirectWidget.redirect).             *)
(*                                                                         *)
(* Names (shows, allocations, jobs, hosts, procs, typed text) are          *)
(* sequences of one-character strings, so that rstrip, strip, split,       *)
(* "in" on strings and re.match are computed and not assumed.              *)
(* Cores are counted in half cores (the API gives floats); int() on a      *)
(* core count truncates to whole cores.  Memory is in KB, as in the API.   *)
(* Spin boxes with one decimal hold tenths.                                *)
(***************************************************************************)
EXTENDS Integers, Sequences, FiniteSets, TLC

VARIABLES
    cfg,              \* cuegui.Utils.getResourceConfig(): the keys present
    now,              \* int(time.time())
    jobsInCue,        \* the jobs opencue.api.findJob can find
    redirect_target,  \* proc.data.redirect_target of every proc of the farm
    job_box,          \* RedirectControls.__job_box text
    cores_spin,       \* RedirectControls.__cores_spin value (whole cores)
    mem_spin,         \* RedirectControls.__mem_spin value (tenths of a GB)
    prh_spin,         \* RedirectControls.__prh_spin value (tenths of an hour)
    limit_spin,       \* RedirectControls.__limit_spin value
    show_combo,       \* ShowCombo current text
    current_show,     \* RedirectControls.__current_show (its name)
    include_groups,   \* GroupFilter: the texts of the checked actions
    require_services, \* RedirectControls.__require_services text
    exclude_regex,    \* RedirectControls.__exclude_regex text
    alloc_selected,   \* AllocFilter.__selected
    hosts,            \* RedirectWidget.__hosts
    rows,             \* RedirectWidget.__model: the top-level items
    search,           \* history: what the controls held when update() last ran
    call              \* history: what the last redirect() did

vars == <<cfg, now, jobsInCue, redirect_target, job_box, cores_spin, mem_spin,
          prh_spin, limit_spin, show_combo, current_show, include_groups,
          require_services, exclude_regex, alloc_selected, hosts, rows,
          search, call>>

None == "None"

----------------------------------------------------------------------------
(* Strings of Python, as sequences of characters.                          *)

\* str.rstrip(chars): drop trailing characters that are in the set chars.
RECURSIVE RStrip(_, _)
RStrip(s, chars) ==
    IF s # <<>> /\ s[Len(s)] \in chars
    THEN RStrip(SubSeq(s, 1, Len(s) - 1), chars)
    ELSE s

\* str.lstrip(chars).
RECURSIVE LStrip(_, _)
LStrip(s, chars) ==
    IF s # <<>> /\ s[1] \in chars
    THEN LStrip(Tail(s), chars)
    ELSE s

Whitespace == {" "}

\* str.strip(): whitespace off both ends.
Strip(s) == LStrip(RStrip(s, Whitespace), Whitespace)

CharsOf(s) == {s[i] : i \in 1..Len(s)}

\* a in b, for two strings: a occurs in b as a substring.
StrIn(a, b) ==
    \E i \in 0..(Len(b) - Len(a)) : SubSeq(b, i + 1, i + Len(a)) = a

\* s.split(sep)[0]: what precedes the first sep.
RECURSIVE SplitFirst(_, _)
SplitFirst(s, sep) ==
    IF s = <<>> \/ s[1] = sep
    THEN <<>>
    ELSE <<s[1]>> \o SplitFirst(Tail(s), sep)

\* re.match(pattern, s) for patterns of literal characters and ".":
\* the pattern matches at the start of s.
ReMatch(pattern, s) ==
    /\ Len(pattern) <= Len(s)
    /\ \A i \in 1..Len(pattern) : pattern[i] = "." \/ pattern[i] = s[i]

\* int(x) of a count of half cores: truncation toward zero, in half cores.
IntCores(x) == IF x >= 0 THEN (x \div 2) * 2 ELSE -(((-x) \div 2) * 2)

RECURSIVE SumSeq(_)
SumSeq(s) == IF s = <<>> THEN 0 ELSE s[1] + SumSeq(Tail(s))

\* x in l, for a list l
InList(x, l) == \E i \in 1..Len(l) : l[i] = x

Max(a, b) == IF a >= b THEN a ELSE b
Min(a, b) == IF a <= b THEN a ELSE b

----------------------------------------------------------------------------
(* The farm the client API reports.                                        *)

PI == <<"p", "i">>
XO == <<"x", "o">>
Shows == {PI, XO}

LAX == <<"l", "a", "x">>
LAP == <<"l", "a", "p">>
Allocs == {LAX, LAP}

\* show.getGroups()
ShowGroups(show) == IF show = PI THEN {"g1", "g2"} ELSE {"g3"}

JPA == <<"p", "a">>
JPB == <<"p", "b">>
JXA == <<"x", "a">>
JPT == <<"p", "t">>
JXT == <<"x", "t">>
JNO == <<"n", "o">>
AllJobs == {JPA, JPB, JXA, JPT, JXT}

\* job.data.show
JobShow(j) == IF j \in {JXA, JXT} THEN XO ELSE PI

\* job.getLayers(): min_cores in half cores, min_memory in KB
JobLayers(j) ==
    CASE j = JPA -> <<[min_cores |-> 2, min_memory |-> 3355443]>>
      [] j = JPB -> <<>>
      [] j = JXA -> <<[min_cores |-> 80, min_memory |-> 9437184]>>
      [] j = JPT -> <<[min_cores |-> 5, min_memory |-> 2097152],
                      [min_cores |-> 2, min_memory |-> 3460301]>>
      [] j = JXT -> <<[min_cores |-> 5, min_memory |-> 524288],
                      [min_cores |-> 3, min_memory |-> 3670016]>>

H1 == <<"h", "1">>
H2 == <<"h", "2">>
H3 == <<"h", "3">>
HostNames == {H1, H2, H3}

\* opencue.api.findHost(name).data
HostData(h) ==
    CASE h = H1 -> [name |-> H1, alloc_name |-> LAX, idle_cores |-> 3,
                    idle_memory |-> 2097152]
      [] h = H2 -> [name |-> H2, alloc_name |-> LAP, idle_cores |-> 0,
                    idle_memory |-> 0]
      [] h = H3 -> [name |-> H3, alloc_name |-> LAX, idle_cores |-> 2,
                    idle_memory |-> 2097152]

MAYA == <<"m">>
NUKE == <<"n">>

\* proc.data of the procs running on the farm (redirect_target is a variable)
Procs == <<
    [name |-> H1 \o <<"/", "1">>, job_name |-> JPA, reserved_cores |-> 2,
     reserved_memory |-> 2097152, dispatch_time |-> 0,
     services |-> <<MAYA>>, group_name |-> "g1"],
    [name |-> H1 \o <<"/", "2">>, job_name |-> JPB, reserved_cores |-> 3,
     reserved_memory |-> 2097152, dispatch_time |-> 400,
     services |-> <<NUKE>>, group_name |-> "g2"],
    [name |-> H2 \o <<"/", "1">>, job_name |-> JPB, reserved_cores |-> 4,
     reserved_memory |-> 4194304, dispatch_time |-> 2000,
     services |-> <<MAYA, NUKE>>, group_name |-> "g1"],
    [name |-> H2 \o <<"/", "2">>, job_name |-> JXA, reserved_cores |-> 5,
     reserved_memory |-> 4194304, dispatch_time |-> 1000,
     services |-> <<MAYA>>, group_name |-> "g3"],
    [name |-> H3 \o <<"/", "1">>, job_name |-> JXA, reserved_cores |-> 4,
     reserved_memory |-> 2097152, dispatch_time |-> 3000,
     services |-> <<NUKE>>, group_name |-> "g3"]
>>

ProcIds == 1..Len(Procs)

\* proc.data.show_name, proc.getJob().show()
ProcShow(p) == JobShow(Procs[p].job_name)

\* show.getSubscriptions(): burst and reserved_cores in half cores
Subscriptions(show) ==
    IF show = PI
    THEN {[name |-> LAX \o <<".">> \o PI, allocation_name |-> LAX,
           burst |-> 20, reserved_cores |-> 18],
          [name |-> LAP \o <<".">> \o PI, allocation_name |-> LAP,
           burst |-> 20, reserved_cores |-> 4]}
    ELSE {[name |-> LAP \o <<".">> \o XO, allocation_name |-> LAP,
           burst |-> 10, reserved_cores |-> 210]}

----------------------------------------------------------------------------
(* The resource config and the controls (RedirectControls).                *)

KbPerGb == 1048576

\* The configs the panel may be started with.
Configs ==
    {[max_proc_hour_cutoff |-> 30],
     [max_proc_hour_cutoff |-> 30, wasted_cores_threshold |-> -1],
     [max_proc_hour_cutoff |-> 30, wasted_cores_threshold |-> 0,
      max_cores |-> 4, max_memory |-> 8]}

\* self._cfg().get(key, default)
CfgGet(key, default) == IF key \in DOMAIN cfg THEN cfg[key] ELSE default

\* QSpinBox.setValue: the value is forced into the range of the box.
Clamp(v, lo, hi) == Max(lo, Min(v, hi))

\* QAbstractSpinBox range of __cores_spin, in whole cores
CoresRange == [lo |-> 1, hi |-> CfgGet("max_cores", 32)]

\* range of __mem_spin, in tenths of a GB (the box has one decimal)
MemRange == [lo |-> 10, hi |-> 10 * CfgGet("max_memory", 200)]

\* range of __prh_spin, in tenths of an hour
PrhRange == [lo |-> 10, hi |-> 10 * CfgGet("max_proc_hour_cutoff", 30)]

\* detect() with the comparison left out: the min_cores of the last layer
DetectMinCoresLast(layers, minCores) ==
    IF layers = <<>> THEN minCores ELSE layers[Len(layers)].min_cores

\* the loop of detect(): the highest min_cores, starting from 1.0
RECURSIVE DetectMinCores(_, _)
DetectMinCores(layers, minCores) ==
    IF layers = <<>> THEN minCores
    ELSE DetectMinCores(Tail(layers),
                        IF layers[1].min_cores > minCores
                        THEN layers[1].min_cores ELSE minCores)

\* the loop of detect(): the highest min_memory, starting from 0
RECURSIVE DetectMinMem(_, _)
DetectMinMem(layers, minMem) ==
    IF layers = <<>> THEN minMem
    ELSE DetectMinMem(Tail(layers),
                      IF layers[1].min_memory > minMem
                      THEN layers[1].min_memory ELSE minMem)

\* __cores_spin.setValue(int(minCores)), minCores in half cores
CoresSpinSetValue(minCores) ==
    Clamp(IntCores(minCores) \div 2, CoresRange.lo, CoresRange.hi)

\* __mem_spin.setValue(float(minMem / 1048576.0)): KB to GB, kept to one
\* decimal (the nearest tenth), forced into the range
MemSpinSetValue(minMem) ==
    Clamp((minMem * 20 + KbPerGb) \div (2 * KbPerGb), MemRange.lo, MemRange.hi)

\* showChanged(), run by currentIndexChanged of the show combo: the current
\* show is looked up again and GroupFilter.__loadShow drops the group actions
ComboSetCurrent(show) ==
    IF show = show_combo
    THEN UNCHANGED <<show_combo, current_show, include_groups>>
    ELSE /\ show_combo' = show
         /\ current_show' = show
         /\ include_groups' = {}

\* detect(), run by textChanged of the job box
Detect(text) ==
    IF text \notin jobsInCue
    THEN UNCHANGED <<cores_spin, mem_spin, show_combo, current_show,
                     include_groups>>
    ELSE /\ cores_spin' = CoresSpinSetValue(DetectMinCores(JobLayers(text), 2))
         /\ mem_spin' = MemSpinSetValue(DetectMinMem(JobLayers(text), 0))
         /\ ComboSetCurrent(JobShow(text))

getCores == cores_spin
getMemory == (mem_spin * KbPerGb) \div 10
getCutoffTime == prh_spin * 360
getRequiredService == Strip(require_services)
getJobNameExcludeRegex == Strip(exclude_regex)

Remote == <<cfg, now, jobsInCue, redirect_target>>
Results == <<hosts, rows, search>>

\* call tells what redirect() did while it is the last handler that ran.
NoCall == [done |-> FALSE, log |-> <<>>, result |-> "returned", job |-> <<>>,
           found |-> FALSE, entries |-> <<>>]

Filters == <<require_services, exclude_regex, alloc_selected>>
Thresholds == <<prh_spin, limit_spin>>

\* What the user may type in the target box.
JobTexts == {<<>>, JPA, JXA, JPT, JXT, JNO}

\* The user edits the target box.
TypeJob(text) ==
    /\ text # job_box
    /\ job_box' = text
    /\ Detect(text)
    /\ call' = NoCall
    /\ UNCHANGED <<Remote, Results, Filters, Thresholds>>

\* clearTarget(): the "Clr" button
ClearTarget ==
    /\ job_box # <<>>
    /\ job_box' = <<>>
    /\ Detect(<<>>)
    /\ call' = NoCall
    /\ UNCHANGED <<Remote, Results, Filters, Thresholds>>

\* The user picks a show in the combo.
SelectShow(show) ==
    /\ show # show_combo
    /\ ComboSetCurrent(show)
    /\ call' = NoCall
    /\ UNCHANGED <<Remote, Results, Filters, Thresholds, job_box, cores_spin,
                   mem_spin>>

\* The user checks or unchecks a group of the "Include Groups" menu.
ToggleGroup(g) ==
    /\ g \in ShowGroups(current_show)
    /\ include_groups' = IF g \in include_groups
                         THEN include_groups \ {g}
                         ELSE include_groups \cup {g}
    /\ call' = NoCall
    /\ UNCHANGED <<Remote, Results, Filters, Thresholds, job_box, cores_spin,
                   mem_spin, show_combo, current_show>>

\* The user sets the spin boxes.
SetCores(c) ==
    /\ c # cores_spin
    /\ cores_spin' = Clamp(c, CoresRange.lo, CoresRange.hi)
    /\ call' = NoCall
    /\ UNCHANGED <<Remote, Results, Filters, Thresholds, job_box, mem_spin,
                   show_combo, current_show, include_groups>>

SetMemory(m) ==
    /\ m # mem_spin
    /\ mem_spin' = Clamp(m, MemRange.lo, MemRange.hi)
    /\ call' = NoCall
    /\ UNCHANGED <<Remote, Results, Filters, Thresholds, job_box, cores_spin,
                   show_combo, current_show, include_groups>>

SetCutoff(h) ==
    /\ h # prh_spin
    /\ prh_spin' = Clamp(h, PrhRange.lo, PrhRange.hi)
    /\ call' = NoCall
    /\ UNCHANGED <<Remote, Results, Filters, limit_spin, job_box, cores_spin,
                   mem_spin, show_combo, current_show, include_groups>>

SetLimit(n) ==
    /\ n # limit_spin
    /\ limit_spin' = Clamp(n, 1, 100)
    /\ call' = NoCall
    /\ UNCHANGED <<Remote, Results, Filters, prh_spin, job_box, cores_spin,
                   mem_spin, show_combo, current_show, include_groups>>

\* The user edits the filter texts.
SetService(text) ==
    /\ text # require_services
    /\ require_services' = text
    /\ call' = NoCall
    /\ UNCHANGED <<Remote, Results, Thresholds, exclude_regex, alloc_selected,
                   job_box, cores_spin, mem_spin, show_combo, current_show,
                   include_groups>>

SetRegex(text) ==
    /\ text # exclude_regex
    /\ exclude_regex' = text
    /\ call' = NoCall
    /\ UNCHANGED <<Remote, Results, Thresholds, require_services,
                   alloc_selected, job_box, cores_spin, mem_spin, show_combo,
                   current_show, include_groups>>

\* AllocFilter.__afterClicked: an allocation of the menu is toggled and
\* __setSelected rebuilds the list, in menu (name) order
AllocMenu == <<LAP, LAX>>

ToggleAlloc(a) ==
    /\ alloc_selected' =
          SelectSeq(AllocMenu,
                    LAMBDA x : IF x = a THEN ~InList(x, alloc_selected)
                               ELSE InList(x, alloc_selected))
    /\ call' = NoCall
    /\ UNCHANGED <<Remote, Results, Thresholds, require_services,
                   exclude_regex, job_box, cores_spin, mem_spin, show_combo,
                   current_show, include_groups>>

\* A job leaves the cue (only a job with no running proc does).
JobFinishes(j) ==
    /\ j \in jobsInCue
    /\ \A p \in ProcIds : Procs[p].job_name # j
    /\ jobsInCue' = jobsInCue \ {j}
    /\ call' = NoCall
    /\ UNCHANGED <<cfg, now, redirect_target, Results, Filters, Thresholds,
                   job_box, cores_spin, mem_spin, show_combo, current_show,
                   include_groups>>

----------------------------------------------------------------------------
(* The search: RedirectWidget.update().                                    *)

\* What update() reads from the controls.
SearchParams ==
    [show |-> current_show,
     job |-> job_box,
     service_filter |-> getRequiredService,
     group_filter |-> include_groups,
     job_regex |-> getJobNameExcludeRegex,
     cores |-> getCores,
     memory |-> getMemory,
     cutoff |-> getCutoffTime,
     limit |-> limit_spin,
     now |-> now]

\* The order in which the farm may list its procs.
Reverse(s) == [i \in 1..Len(s) |-> s[Len(s) + 1 - i]]
Listings == {[i \in ProcIds |-> i], Reverse([i \in ProcIds |-> i])}

\* opencue.api.getProcs(show=..., alloc=...): the farm's procs on the
\* selected allocations (an empty list selects all).  That the farm keeps to
\* the show asked for is not relied on: update() checks the show again.
GetProcs(listing, allocs) ==
    SelectSeq(listing,
              LAMBDA p : \/ allocs = <<>>
                         \/ InList(HostData(SplitFirst(Procs[p].name, "/")).alloc_name,
                                   allocs))

\* The filters of update() that come before the limit test: TRUE when the
\* proc is skipped.
SkippedEarly(p, S) ==
    \/ ProcShow(p) # S.show
    \/ Procs[p].job_name = S.job
    \/ redirect_target[p] # None

\* The later filters with the group test left out.
SkippedLateNoGroup(p, S) ==
    \/ S.job_regex # <<>> /\ ReMatch(S.job_regex, Procs[p].job_name)
    \/ S.service_filter # <<>> /\ ~InList(S.service_filter, Procs[p].services)

\* The filters of update() that come after the limit test: TRUE when the
\* proc is skipped.
SkippedLate(p, S) ==
    \/ S.job_regex # <<>> /\ ReMatch(S.job_regex, Procs[p].job_name)
    \/ S.service_filter # <<>> /\ ~InList(S.service_filter, Procs[p].services)
    \/ S.group_filter # {} /\ Procs[p].group_name \notin S.group_filter

\* hosts[name] = {...}: the entry of a host seen for the first time
NewEntry(name) ==
    [host |-> name,
     procs |-> <<>>,
     mem |-> HostData(name).idle_memory,
     cores |-> IntCores(HostData(name).idle_cores),
     time |-> 0,
     ok |-> FALSE,
     alloc |-> HostData(name).alloc_name]

\* The proc is added to the entry of its host.
Gather(entry, p, S) ==
    [entry EXCEPT !.procs = Append(@, p),
                  !.mem = @ + Procs[p].reserved_memory,
                  !.cores = @ + Procs[p].reserved_cores,
                  !.time = @ + (S.now - Procs[p].dispatch_time)]

\* The test with the run time allowed to reach the cutoff.
HostIsOkAtCutoff(entry, S) ==
    /\ entry.cores >= 2 * S.cores
    /\ entry.mem >= S.memory
    /\ entry.time <= S.cutoff

\* The test that lists a host (cores in half cores).
HostIsOk(entry, S) ==
    /\ entry.cores >= 2 * S.cores
    /\ entry.mem >= S.memory
    /\ entry.time < S.cutoff

\* __addHost(entry): one unchecked, enabled top-level item
AddHost(model, entry) ==
    Append(model, [name |-> HostData(entry.host).name, checked |-> FALSE,
                   enabled |-> TRUE])

\* The body of the loop of update() for a proc that passed the filters.
GatherProc(st, p, S) ==
    LET name == SplitFirst(Procs[p].name, "/")
        hs == IF name \in DOMAIN st.hosts THEN st.hosts
              ELSE st.hosts @@ (name :> NewEntry(name))
    IN  IF hs[name].ok
        THEN [st EXCEPT !.hosts = hs]
        ELSE LET host == Gather(hs[name], p, S)
             IN  IF HostIsOk(host, S)
                 THEN [hosts |-> [hs EXCEPT ![name] = [host EXCEPT !.ok = TRUE]],
                       rows |-> AddHost(st.rows, host),
                       ok |-> st.ok + 1]
                 ELSE [st EXCEPT !.hosts = [hs EXCEPT ![name] = host]]

\* The loop of update() over the listed procs; cancel is the number of
\* iterations before the user cancels the progress dialog.
RECURSIVE UpdateLoop(_, _, _, _)
UpdateLoop(procs, cancel, st, S) ==
    IF procs = <<>> \/ cancel = 0 THEN st
    ELSE LET p == Head(procs)
         IN  IF SkippedEarly(p, S)
             THEN UpdateLoop(Tail(procs), cancel - 1, st, S)
             ELSE IF st.ok >= S.limit
             THEN st
             ELSE IF SkippedLate(p, S)
             THEN UpdateLoop(Tail(procs), cancel - 1, st, S)
             ELSE UpdateLoop(Tail(procs), cancel - 1, GatherProc(st, p, S), S)

NoHosts == [h \in {} |-> NewEntry(h)]

\* update(): the "Search" button
Update(listing, cancel) ==
    \E S \in {SearchParams} :
    \E st \in {UpdateLoop(GetProcs(listing, alloc_selected), cancel,
                          [hosts |-> NoHosts, rows |-> <<>>, ok |-> 0], S)} :
        /\ hosts' = st.hosts
        /\ rows' = st.rows
        /\ search' = [done |-> TRUE, params |-> S,
                       targets |-> redirect_target,
                       allocs |-> alloc_selected,
                       complete |-> cancel >= Len(listing)]
        /\ call' = NoCall
        /\ UNCHANGED <<Remote, Filters, Thresholds, job_box, cores_spin,
                       mem_spin, show_combo, current_show, include_groups>>

----------------------------------------------------------------------------
(* The redirect: RedirectWidget.redirect() and its checks.                 *)

WastedCoresDefault == 100

\* One thing redirect() did: a warning shown (ev "warn"), a check made
\* ("xshow", "burst"), an exception that left redirect() ("raise"), or a
\* host.redirectToJob call ("redirectToJob").
\* who is the allocation or the host, asked says whether the user was asked,
\* answer is what the user clicked, result is what the check returned (for
\* redirectToJob: that the call did not raise).
Event(ev, who, procs, asked, answer, result, msg) ==
    [ev |-> ev, who |-> who, procs |-> procs, asked |-> asked,
     answer |-> answer, result |-> result, msg |-> msg]

Warn(msg) == Event("warn", <<>>, <<>>, FALSE, FALSE, FALSE, msg)

\* selected_items: the checked rows, in row order
SelectedItems == SelectSeq(rows, LAMBDA r : r.checked)

\* __get_selected_procs_by_alloc: the keys of the dict, in insertion order
RECURSIVE AllocKeys(_, _)
AllocKeys(items, keys) ==
    IF items = <<>> THEN keys
    ELSE LET alloc == hosts[items[1].name].alloc
         IN  AllocKeys(Tail(items),
                       IF InList(alloc, keys) THEN keys ELSE Append(keys, alloc))

\* __get_selected_procs_by_alloc: the procs under one key
RECURSIVE AllocProcs(_, _)
AllocProcs(items, alloc) ==
    IF items = <<>> THEN <<>>
    ELSE (IF hosts[items[1].name].alloc = alloc
          THEN hosts[items[1].name].procs ELSE <<>>)
         \o AllocProcs(Tail(items), alloc)

\* The cross-show jobs with the "not" of the comparison left out.
XshowJobsSameShow(procs, target_show) ==
    SelectSeq(procs, LAMBDA p : ProcShow(p) = target_show)

\* __is_cross_show_safe: the jobs' procs of another show than the target's
XshowJobs(procs, target_show) ==
    SelectSeq(procs, LAMBDA p : ~(ProcShow(p) = target_show))

\* __is_cross_show_safe(procs, target_show); answer is what the user would
\* click in the question box
IsCrossShowSafe(alloc, procs, target_show, answer) ==
    IF XshowJobs(procs, target_show) = <<>>
    THEN Event("xshow", alloc, procs, FALSE, FALSE, TRUE, "")
    ELSE Event("xshow", alloc, procs, TRUE, answer, answer,
               "Cross-show Redirect!")

\* show_subs.get(alloc): the subscriptions of the show whose allocation name
\* occurs in alloc, keyed by their name with rstrip('.' + show) applied
ShowSubsGet(alloc, show) ==
    {s \in Subscriptions(show) :
        /\ StrIn(s.allocation_name, alloc)
        /\ RStrip(s.name, CharsOf(<<".">> \o show)) = alloc}

\* wasted_cores of __is_burst_safe, in half cores
WastedCores(sub, procs) ==
    LET procs_to_burst == sub.burst - sub.reserved_cores
        procs_to_redirect ==
            IntCores(SumSeq([i \in 1..Len(procs) |->
                                Procs[procs[i]].reserved_cores]))
    IN  IntCores(procs_to_redirect - procs_to_burst)

\* __is_burst_safe(alloc, procs, show).  With no entry for alloc,
\* show_subs.get(alloc) is None and None.data raises AttributeError, which
\* "except TypeError" does not catch.
IsBurstSafe(alloc, procs, show, answer) ==
    LET wc_ok == CfgGet("wasted_cores_threshold", WastedCoresDefault)
        subs == ShowSubsGet(alloc, show)
    IN  IF wc_ok < 0
        THEN Event("burst", alloc, procs, FALSE, FALSE, TRUE, "")
        ELSE IF subs = {}
        THEN Event("raise", alloc, procs, FALSE, FALSE, FALSE, "AttributeError")
        ELSE IF WastedCores(CHOOSE s \in subs : TRUE, procs) <= 2 * wc_ok
        THEN Event("burst", alloc, procs, FALSE, FALSE, TRUE, "")
        ELSE Event("burst", alloc, procs, TRUE, answer, answer,
                   "Do you want to redirect anyway?")

\* The checks made for the first allocation group only.
RunChecksFirstGroup(keys, items, show_name, xans, bans) ==
    IF keys = <<>> THEN <<>>
    ELSE LET alloc == keys[1]
             procs == AllocProcs(items, alloc)
             x == IsCrossShowSafe(alloc, procs, show_name, xans[alloc])
             b == IsBurstSafe(alloc, procs, show_name, bans[alloc])
         IN  IF ~x.result THEN <<x>> ELSE <<x, b>>

\* The loop of redirect() over procs_by_alloc: the checks made, until one
\* does not return true.
RECURSIVE RunChecks(_, _, _, _, _)
RunChecks(keys, items, show_name, xans, bans) ==
    IF keys = <<>> THEN <<>>
    ELSE LET alloc == keys[1]
             procs == AllocProcs(items, alloc)
             x == IsCrossShowSafe(alloc, procs, show_name, xans[alloc])
             b == IsBurstSafe(alloc, procs, show_name, bans[alloc])
         IN  IF ~x.result THEN <<x>>
             ELSE IF ~b.result THEN <<x, b>>
             ELSE <<x, b>> \o RunChecks(Tail(keys), items, show_name, xans, bans)

\* The redirect loop with the try around the loop: it ends at the first
\* call that raises.
RedirectLoopEndsAtError(items, failing) ==
    LET bad == {i \in 1..Len(items) : items[i].name \in failing}
        last == IF bad = {} THEN Len(items)
                ELSE CHOOSE i \in bad : \A j \in bad : i <= j
    IN  [i \in 1..last |->
            Event("redirectToJob", items[i].name, hosts[items[i].name].procs,
                  FALSE, FALSE, items[i].name \notin failing, "")]

\* The redirect loop: one host.redirectToJob(procs, job) per selected item;
\* the call raises for the hosts in failing.
RedirectLoop(items, failing) ==
    [i \in 1..Len(items) |->
        Event("redirectToJob", items[i].name, hosts[items[i].name].procs,
              FALSE, FALSE, items[i].name \notin failing, "")]

\* What redirect() does, as the list of its events.
RedirectLog(xans, bans, failing) ==
    LET items == SelectedItems
    IN  IF items = <<>>
        THEN <<Warn("You have not selected anything to redirect.")>>
        ELSE IF job_box = <<>>
        THEN <<Warn("You must have a job name selected.")>>
        ELSE IF job_box \notin jobsInCue
        THEN \* self.__warn_and_stop does not exist
             <<Event("raise", <<>>, <<>>, FALSE, FALSE, FALSE,
                     "AttributeError")>>
        ELSE LET checks == RunChecks(AllocKeys(items, <<>>), items,
                                     JobShow(job_box), xans, bans)
             IN  IF \E i \in 1..Len(checks) : ~checks[i].result
                 THEN checks
                 ELSE LET done == RedirectLoop(items, failing)
                      IN  checks \o done \o
                          (IF \E i \in 1..Len(done) : ~done[i].result
                           THEN <<Warn("Some procs failed to redirect.")>>
                           ELSE <<>>)

Redirected(log) == {i \in 1..Len(log) : log[i].ev = "redirectToJob"}

\* What redirect() leaves behind, given the list of what it did: the rows it
\* went through are disabled, and the farm has set the redirect target of
\* the procs of the redirectToJob calls that did not raise.
RedirectEffect(log) ==
    LET hit == {log[i].who : i \in Redirected(log)}
        moved == {p \in ProcIds :
                     \E i \in Redirected(log) :
                         log[i].result /\ InList(p, log[i].procs)}
    IN  /\ call' = [done |-> TRUE,
                    log |-> log,
                    result |-> IF \E i \in 1..Len(log) : log[i].ev = "raise"
                               THEN "raised" ELSE "returned",
                    job |-> job_box,
                    found |-> job_box \in jobsInCue,
                    entries |-> [i \in 1..Len(SelectedItems) |->
                                    hosts[SelectedItems[i].name]]]
        /\ rows' = [i \in 1..Len(rows) |->
                       IF rows[i].name \in hit
                       THEN [rows[i] EXCEPT !.enabled = FALSE]
                       ELSE rows[i]]
        /\ redirect_target' = [p \in ProcIds |->
                                  IF p \in moved THEN job_box
                                  ELSE redirect_target[p]]
        /\ UNCHANGED <<cfg, now, jobsInCue, Filters, Thresholds, job_box,
                       cores_spin, mem_spin, show_combo, current_show,
                       include_groups, hosts, search>>

\* redirect(): the "Redirect" button
Redirect(xans, bans, failing) ==
    \E log \in {RedirectLog(xans, bans, failing)} : RedirectEffect(log)

\* The user checks or unchecks an enabled row.
ToggleCheck(i) ==
    /\ i \in 1..Len(rows)
    /\ rows[i].enabled
    /\ rows' = [rows EXCEPT ![i].checked = ~@]
    /\ call' = NoCall
    /\ UNCHANGED <<Remote, Filters, Thresholds, job_box, cores_spin, mem_spin,
                   show_combo, current_show, include_groups, hosts, search>>

\* selectAll(): the "Select All" button
SelectAll ==
    /\ rows' = [i \in 1..Len(rows) |-> [rows[i] EXCEPT !.checked = TRUE]]
    /\ call' = NoCall
    /\ UNCHANGED <<Remote, Filters, Thresholds, job_box, cores_spin, mem_spin,
                   show_combo, current_show, include_groups, hosts, search>>

\* Some client of the farm redirects a proc: its redirect_target is set.
FarmRedirects(p, j) ==
    /\ redirect_target[p] = None
    /\ redirect_target' = [redirect_target EXCEPT ![p] = j]
    /\ call' = NoCall
    /\ UNCHANGED <<cfg, now, jobsInCue, Results, Filters, Thresholds, job_box,
                   cores_spin, mem_spin, show_combo, current_show,
                   include_groups>>

\* time.time() moves on.
MaxTicks == 1

Tick ==
    /\ now < 4000 + 1000 * MaxTicks
    /\ now' = now + 1000
    /\ call' = NoCall
    /\ UNCHANGED <<cfg, jobsInCue, redirect_target, Results, Filters,
                   Thresholds, job_box, cores_spin, mem_spin, show_combo,
                   current_show, include_groups>>

----------------------------------------------------------------------------
(* The panel after construction.                                           *)

Init ==
    /\ cfg \in Configs
    /\ now = 4000
    /\ jobsInCue = AllJobs
    /\ redirect_target = [p \in ProcIds |-> None]
    /\ job_box = <<>>
    /\ cores_spin = 1
    /\ mem_spin = 40
    /\ prh_spin = 100
    /\ limit_spin = 10
    /\ show_combo = PI
    /\ current_show = PI
    /\ include_groups = {}
    /\ require_services = <<>>
    /\ exclude_regex = <<>>
    /\ alloc_selected = <<LAX>>
    /\ hosts = NoHosts
    /\ rows = <<>>
    /\ search = [done |-> FALSE, params |-> SearchParams,
                 targets |-> [p \in ProcIds |-> None], allocs |-> <<>>,
                 complete |-> FALSE]
    /\ call = NoCall

\* The panel started with no resource config of its own.
InitDefault == Init /\ cfg = [max_proc_hour_cutoff |-> 30]

\* What the user answers to the question boxes: yes to all, or no to all.
Answers == {[a \in Allocs |-> TRUE], [a \in Allocs |-> FALSE]}

\* The controls alone (detect and the show combo).
NextControls ==
    \/ \E text \in JobTexts : TypeJob(text)
    \/ ClearTarget
    \/ \E show \in Shows : SelectShow(show)
    \/ \E g \in {"g1", "g2", "g3"} : ToggleGroup(g)
    \/ \E c \in {1, 3, 40} : SetCores(c)
    \/ \E m \in {5, 25} : SetMemory(m)
    \/ \E j \in AllJobs : JobFinishes(j)

SpecControls == Init /\ [][NextControls]_vars

\* The search with its filters.
NextSearch ==
    \/ \E text \in {<<>>, JPA} : TypeJob(text)
    \/ \E show \in Shows : SelectShow(show)
    \/ \E g \in {"g1", "g3"} : ToggleGroup(g)
    \/ \E text \in {<<>>, <<" ", "m">>} : SetService(text)
    \/ \E text \in {<<>>, <<".", "b", " ">>} : SetRegex(text)
    \/ \E a \in {LAP} : ToggleAlloc(a)
    \/ \E p \in {1} : FarmRedirects(p, JPT)
    \/ \E listing \in Listings, cancel \in {2, Len(Procs)} :
          Update(listing, cancel)

SpecSearch == InitDefault /\ [][NextSearch]_vars

\* The search with its thresholds.
NextAggregate ==
    \/ \E show \in Shows : SelectShow(show)
    \/ \E c \in {1, 3} : SetCores(c)
    \/ \E m \in {25, 40} : SetMemory(m)
    \/ \E h \in {10, 100} : SetCutoff(h)
    \/ \E n \in {1, 10} : SetLimit(n)
    \/ \E a \in {LAP} : ToggleAlloc(a)
    \/ Tick
    \/ \E listing \in Listings : Update(listing, Len(Procs))

SpecAggregate == InitDefault /\ [][NextAggregate]_vars

\* The redirect of searched hosts.
NextRedirect ==
    \/ \E text \in {JPT, JXT} : TypeJob(text)
    \/ \E a \in {LAP} : ToggleAlloc(a)
    \/ \E j \in {JPT} : JobFinishes(j)
    \/ Update([i \in ProcIds |-> i], Len(Procs))
    \/ \E i \in 1..Cardinality(HostNames) : ToggleCheck(i)
    \/ SelectAll
    \/ \E xans \in Answers, bans \in Answers, failing \in {{}, {H1}} :
          Redirect(xans, bans, failing)

SpecRedirect == Init /\ [][NextRedirect]_vars

\* The whole panel.
Next == NextControls \/ NextSearch \/ NextAggregate \/ NextRedirect

Spec == Init /\ [][Next]_vars

----------------------------------------------------------------------------
(* The search: what update() lists.                                        *)

\* The host a proc runs on, and the procs gathered for a listed row.
ProcHost(p) == SplitFirst(Procs[p].name, "/")
RowProcs(i) == hosts[rows[i].name].procs

\* C2: after update(), every proc gathered under a listed host row is of
\* the show selected at search time, is not of the job named in the target
\* box at search time, had no redirect target, has a job name the exclude
\* regex (when one is entered) does not match, has the required service (when
\* one is entered) among its services and is of a checked group (when any is
\* checked); and with no regex, service and group entered, a search that ran
\* to its end below the result limit left out no proc that passes the first
\* three tests: each is gathered for its host, unless the host was listed
\* before the proc was reached.
C2_ListedProcsPassFilters ==
    search.done =>
        LET S == search.params
        IN  /\ \A i \in 1..Len(rows) : \A k \in 1..Len(RowProcs(i)) :
                  LET proc == Procs[RowProcs(i)[k]]
                  IN  /\ JobShow(proc.job_name) = S.show
                      /\ proc.job_name # S.job
                      /\ search.targets[RowProcs(i)[k]] = None
                      /\ S.job_regex # <<>> =>
                            ~ReMatch(S.job_regex, proc.job_name)
                      /\ S.service_filter # <<>> =>
                            \E n \in 1..Len(proc.services) :
                                proc.services[n] = S.service_filter
                      /\ S.group_filter # {} => proc.group_name \in S.group_filter
            /\ ( /\ S.job_regex = <<>>
                 /\ S.service_filter = <<>>
                 /\ S.group_filter = {}
                 /\ search.complete
                 /\ Len(rows) < S.limit )
               => \A p \in ProcIds :
                     ( /\ \/ search.allocs = <<>>
                          \/ InList(HostData(ProcHost(p)).alloc_name, search.allocs)
                       /\ ProcShow(p) = S.show
                       /\ Procs[p].job_name # S.job
                       /\ search.targets[p] = None )
                     => /\ ProcHost(p) \in DOMAIN hosts
                        /\ \/ InList(p, hosts[ProcHost(p)].procs)
                           \/ hosts[ProcHost(p)].ok

\* A search with all three optional filters entered that listed a host, while
\* a proc of the same show on the same host was filtered out.
C2_Witness ==
    /\ search.done
    /\ search.params.job_regex # <<>>
    /\ search.params.service_filter # <<>>
    /\ search.params.group_filter # {}
    /\ \E i \in 1..Len(rows) :
          /\ RowProcs(i) # <<>>
          /\ \E p \in ProcIds :
                /\ ProcHost(p) = rows[i].name
                /\ ProcShow(p) = search.params.show
                /\ ~InList(p, RowProcs(i))

\* C3: every listed host row satisfied, when it was listed, all three of:
\* idle cores plus the reserved cores of its gathered procs >= the minimum
\* cores, idle memory plus their reserved memory >= the minimum memory, their
\* summed run time < the proc-hour cutoff (the values as update() read
\* them); and a host is a listed row exactly when its entry is marked ok.
C3_ListedHostsMeetThresholds ==
    search.done =>
        LET S == search.params
            cores(e) == SumSeq([k \in 1..Len(e.procs) |->
                                   Procs[e.procs[k]].reserved_cores])
            mem(e) == SumSeq([k \in 1..Len(e.procs) |->
                                 Procs[e.procs[k]].reserved_memory])
            time(e) == SumSeq([k \in 1..Len(e.procs) |->
                                  S.now - Procs[e.procs[k]].dispatch_time])
        IN  /\ \A i \in 1..Len(rows) :
                  LET e == hosts[rows[i].name]
                  IN  /\ HostData(rows[i].name).idle_cores + cores(e) >= 2 * S.cores
                      /\ HostData(rows[i].name).idle_memory + mem(e) >= S.memory
                      /\ time(e) < S.cutoff
            /\ {rows[i].name : i \in 1..Len(rows)} =
                  {h \in DOMAIN hosts : hosts[h].ok}
            /\ Len(rows) = Cardinality({rows[i].name : i \in 1..Len(rows)})

\* A host listed only once two procs had been gathered for it, in a search
\* that also left a host with gathered procs unlisted.
C3_Witness ==
    /\ search.done
    /\ \E i \in 1..Len(rows) : Len(RowProcs(i)) >= 2
    /\ \E h \in DOMAIN hosts : ~hosts[h].ok /\ hosts[h].procs # <<>>

----------------------------------------------------------------------------
(* The redirect: what redirect() does.                                     *)

\* The redirectToJob calls of the last redirect(), the allocation groups of
\* its checked rows, and the show of its target job.
Attempts == {i \in 1..Len(call.log) : call.log[i].ev = "redirectToJob"}
Groups == {call.entries[n].alloc : n \in 1..Len(call.entries)}
TargetShow == JobShow(call.job)

\* The check ev of group a returned true before position i of the log, and
\* it was made on all the procs of the group's checked rows.
Approved(ev, a, i) ==
    \E j \in 1..(i - 1) :
        /\ call.log[j].ev = ev
        /\ call.log[j].who = a
        /\ call.log[j].result
        /\ \A n \in 1..Len(call.entries) :
              call.entries[n].alloc = a =>
                  \A k \in 1..Len(call.entries[n].procs) :
                      InList(call.entries[n].procs[k], call.log[j].procs)

\* C1: in a redirect(), every host.redirectToJob call comes after the
\* cross-show check and the burst check have returned true for every
\* allocation group of the checked rows; and when a check returned false,
\* redirect() returned with no redirectToJob call made at all.
C1_ChecksBeforeAnyRedirect ==
    call.done =>
        /\ \A i \in Attempts : \A a \in Groups :
              Approved("xshow", a, i) /\ Approved("burst", a, i)
        /\ (\E j \in 1..Len(call.log) :
               call.log[j].ev \in {"xshow", "burst"} /\ ~call.log[j].result)
           => Attempts = {} /\ call.result = "returned"

\* A redirect() of rows of two allocation groups that went through, the user
\* having been asked.
C1_Witness ==
    /\ call.done
    /\ Cardinality(Groups) = 2
    /\ Attempts # {}
    /\ \E j \in 1..Len(call.log) : call.log[j].asked

\* All the checks of the last redirect() passed.
ChecksPassed ==
    \A a \in Groups :
        Approved("xshow", a, Len(call.log) + 1)
        /\ Approved("burst", a, Len(call.log) + 1)

\* C4: when redirect() has a selection, finds the target job and all checks
\* pass, it calls host.redirectToJob exactly once for every checked row, with
\* the procs gathered for that host, whether or not an earlier call raised;
\* the procs of the calls that did not raise have the target job as their
\* redirect target; and the "Some procs failed to redirect." warning is
\* shown exactly when a call raised.
C4_OneAttemptPerCheckedRow ==
    (call.done /\ call.entries # <<>> /\ call.found /\ ChecksPassed) =>
        /\ \A n \in 1..Len(call.entries) :
              Cardinality({i \in Attempts :
                              /\ call.log[i].who = call.entries[n].host
                              /\ call.log[i].procs = call.entries[n].procs}) = 1
        /\ Cardinality(Attempts) = Len(call.entries)
        /\ \A i \in Attempts :
              call.log[i].result =>
                  \A k \in 1..Len(call.log[i].procs) :
                      redirect_target[call.log[i].procs[k]] = call.job
        /\ (\E j \in 1..Len(call.log) :
               /\ call.log[j].ev = "warn"
               /\ call.log[j].msg = "Some procs failed to redirect.")
           <=> (\E i \in Attempts : ~call.log[i].result)
        /\ call.result = "returned"

\* A redirect() whose first redirectToJob call raised and whose second did
\* not.
C4_Witness ==
    /\ call.done
    /\ Len(call.entries) >= 2
    /\ \E i \in Attempts, j \in Attempts :
          i < j /\ ~call.log[i].result /\ call.log[j].result

\* C5: a proc whose job is of another show than the target job's is given to
\* redirectToJob only after the user answered yes to the cross-show question
\* of that redirect() about it; the cross-show check asks exactly when some
\* proc of the group is of another show, returns the answer when it asks and
\* true when it does not.
C5_CrossShowNeedsYes ==
    call.done =>
        /\ \A i \in Attempts : \A k \in 1..Len(call.log[i].procs) :
              JobShow(Procs[call.log[i].procs[k]].job_name) # TargetShow =>
                  \E j \in 1..(i - 1) :
                      /\ call.log[j].ev = "xshow"
                      /\ call.log[j].asked
                      /\ call.log[j].answer
                      /\ InList(call.log[i].procs[k], call.log[j].procs)
        /\ \A j \in 1..Len(call.log) :
              call.log[j].ev = "xshow" =>
                  /\ call.log[j].asked <=>
                        \E k \in 1..Len(call.log[j].procs) :
                            JobShow(Procs[call.log[j].procs[k]].job_name)
                                # TargetShow
                  /\ call.log[j].result =
                        (IF call.log[j].asked THEN call.log[j].answer ELSE TRUE)

\* A redirect() that gave a proc of another show to redirectToJob.
C5_Witness ==
    /\ call.done
    /\ \E i \in Attempts : \E k \in 1..Len(call.log[i].procs) :
          JobShow(Procs[call.log[i].procs[k]].job_name) # TargetShow

\* The subscriptions of the target show to allocation a.
SubscribedTo(a) == {sub \in Subscriptions(TargetShow) : sub.allocation_name = a}

\* The burst checks of the last redirect(): those that returned and those
\* that raised.
BurstChecks ==
    {j \in 1..Len(call.log) :
        call.log[j].ev \in {"burst", "raise"} /\ call.log[j].who \in Allocs}

\* C6: with a negative threshold the burst check returns true without asking;
\* otherwise, whenever the target show has a subscription to the allocation,
\* the check asks the user exactly when (sum of the reserved cores of the
\* procs) - (burst - reserved cores of the subscription) exceeds the
\* threshold, returns the answer when it asks and true when it does not.
C6_BurstCheckAsClaimed ==
    call.done =>
        \A j \in BurstChecks :
            LET e == call.log[j]
                wc_ok == CfgGet("wasted_cores_threshold", WastedCoresDefault)
                wasted(sub) ==
                    SumSeq([k \in 1..Len(e.procs) |->
                               Procs[e.procs[k]].reserved_cores])
                    - (sub.burst - sub.reserved_cores)
            IN  /\ wc_ok < 0 => e.ev = "burst" /\ ~e.asked /\ e.result
                /\ (wc_ok >= 0 /\ SubscribedTo(e.who) # {}) =>
                      /\ e.ev = "burst"
                      /\ e.asked <=>
                            \A sub \in SubscribedTo(e.who) : wasted(sub) > 2 * wc_ok
                      /\ e.result = (IF e.asked THEN e.answer ELSE TRUE)

\* C8: when the job named in the target box is not in the cue, redirect()
\* shows a warning and returns, with no redirectToJob call made.
C8_MissingJobWarned ==
    (call.done /\ call.entries # <<>> /\ call.job # <<>> /\ ~call.found) =>
        /\ call.result = "returned"
        /\ \E j \in 1..Len(call.log) : call.log[j].ev = "warn"
        /\ Attempts = {}

\* C9: when the burst check is reached (threshold not negative) and the
\* target show has no subscription to the allocation, the "does not have a
\* subscription" warning is shown, the check returns false and redirect()
\* returns with no redirectToJob call made.
C9_NoSubscriptionWarned ==
    call.done =>
        \A j \in BurstChecks :
            ( /\ CfgGet("wasted_cores_threshold", WastedCoresDefault) >= 0
              /\ SubscribedTo(call.log[j].who) = {} )
            => /\ call.log[j].ev = "burst"
               /\ ~call.log[j].result
               /\ \E k \in 1..Len(call.log) : call.log[k].ev = "warn"
               /\ call.result = "returned"
               /\ Attempts = {}

----------------------------------------------------------------------------
(* The controls: what detect() sets.                                       *)

Highest(S) == CHOOSE m \in S : \A x \in S : m >= x
LayerCores(j) == {2} \cup {JobLayers(j)[n].min_cores : n \in 1..Len(JobLayers(j))}
LayerMem(j) == {0} \cup {JobLayers(j)[n].min_memory : n \in 1..Len(JobLayers(j))}
Dist(a, b) == IF a >= b THEN a - b ELSE b - a

\* detect() left the show as it was.
ShowKept == UNCHANGED <<show_combo, current_show>>

====
